---- MODULE Spec2Model ----
(***************************************************************************)
(* Model of cube_builder_aws/business.py (class CubeBusiness).             *)
(*                                                                         *)
(* A cube id is modelled by the sequence of its '_'-separated segments:    *)
(* <<"mc","10">> is the irregular (IDENTITY) cube "mc_10",                 *)
(* <<"mc","10","1M">> the composite "mc_10_1M" and                         *)
(* <<"mc","10","1M","STK">> the composite with its function.               *)
(***************************************************************************)
EXTENDS Integers, Sequences, FiniteSets, TLC

VARIABLES
    ledger,         \* activity ledger: datacube key -> list of activities (their mystatus)
    worker_calls,   \* the maestro workers the last stream callback invoked, in order
    collections,    \* metadata store: the Collection rows
    bands,          \* metadata store: the Band rows, in query order
    score,          \* CubeBusiness.score, the dictionary shared by orchestrate and prepare_merge
    requests,       \* the start_process calls in progress: locals, position and result
    stage_status,   \* build pipeline: the status of each activity of one (tile, period)
    queue,          \* build pipeline: the messages waiting in the work queue, per activity
    sent,           \* build pipeline: how many times each activity has been enqueued
    advanced,       \* build pipeline: the 'advanced' flag of each stage of the (tile, period)
    runs,           \* build pipeline: the stream callbacks in progress
    dups,           \* build pipeline: the duplicate deliveries made so far
    temporal_composition_schemas,
                    \* metadata store: the TemporalCompositionSchema rows, in insertion order
    raster_size_schemas,
                    \* metadata store: the RasterSizeSchema rows, in insertion order
    last            \* the most recent call on the CubeBusiness object and what it returned

statusVars == <<ledger>>
streamVars == <<worker_calls>>
storeVars == <<collections, bands>>
schemaVars == <<temporal_composition_schemas, raster_size_schemas>>
startVars == <<score, requests>>

pipeVars == <<stage_status, queue, sent, advanced, runs, dups>>

vars ==
    <<ledger, worker_calls, collections, bands, score, requests,
      stage_status, queue, sent, advanced, runs, dups,
      temporal_composition_schemas, raster_size_schemas, last>>

(***************************************************************************)
(* Bounds.                                                                 *)
(***************************************************************************)
\* the ledger holds at most this many activities, over all datacubes
MaxActs == 3
\* a stream callback carries at most this many records
MaxRecords == 2
\* the metadata store holds at most this many Band rows
MaxBands == 2
\* dates are the days 1..MaxDate
MaxDate == 2
\* a create_cube request names at most this many composite functions
MaxFunctions == 2
\* a create_cube request names at most this many indices
MaxIndices == 2
\* the work queue delivers at most this many messages a second time
MaxDuplicates == 1

(***************************************************************************)
(* Activity ledger (DynamoDB table behind CubeServices).                   *)
(***************************************************************************)
Statuses == {"NOTDONE", "DOING", "DONE", "ERROR"}

IrregularKey == <<"mc", "10">>
CompositeKey == <<"mc", "10", "1M">>
OtherKey == <<"mc", "10", "16D">>
LedgerKeys == {IrregularKey, CompositeKey, OtherKey}

\* the cube names a status request may carry
DatacubeNames ==
    { <<"mc", "10">>, <<"mc", "10", "1M">>,
      <<"mc", "10", "1M", "STK">>, <<"mc", "10", "16D", "MED">> }

RECURSIVE SumOver(_, _)
SumOver(f, S) ==
    IF S = {} THEN 0
    ELSE LET k == CHOOSE x \in S : TRUE IN Len(f[k]) + SumOver(f, S \ {k})

LedgerSize == SumOver(ledger, LedgerKeys)

\* utils.builder.get_cube_parts: the '_'-separated fragments of a cube name
get_cube_parts(datacube) == datacube

\* '_'.join(parts[:n])
JoinParts(parts, n) == SubSeq(parts, 1, IF Len(parts) < n THEN Len(parts) ELSE n)

\* CubeServices.get_activities_by_datacube: the ledger rows of one datacube
get_activities_by_datacube(datacube) ==
    IF datacube \in DOMAIN ledger THEN ledger[datacube] ELSE <<>>

\* len(list(filter(lambda i: i['mystatus'] == status, acts)))
CountStatus(acts, status) == Cardinality({i \in DOMAIN acts : acts[i] = status})

\* the elements of a list
Range(q) == {q[i] : i \in DOMAIN q}

NoCall == [op |-> "none"]

\* a key the record does not carry, a value that is None
Absent == "<absent>"

\* no end_date in the request
NoDate == 0

\* self.score without the key 'items'
NoItems == [datacube |-> <<>>, cube |-> <<>>, periods |-> {}]

\* what a call has returned while it is still running
NoResult == [kind |-> "none"]

(***************************************************************************)
(* CubeBusiness.get_cube_status                                            *)
(***************************************************************************)
UnfinishedOnlyErrors(not_done, errors) == errors # 0

UnfinishedOnlyNotDone(not_done, errors) == not_done # 0

\* the test of line 150: the build is still unfinished
Unfinished(not_done, errors) == (not_done + errors) # 0

\* the 'done' figure of the unfinished response, line 153
DoneOfUnfinished(activities, not_done, errors) == Len(activities) - (not_done + errors)

\* The response of get_cube_status: the status counts of lines 135-156, the
\* IndexError of acts[-1] on an empty activity list (line 160), and of the
\* finished response the fields finished and done (lines 205-212).
get_cube_status(datacube) ==
    LET parts_cube_name == get_cube_parts(datacube)
        irregular_datacube == JoinParts(parts_cube_name, 2)
        is_irregular == Len(parts_cube_name) > 2
        dc == IF is_irregular THEN JoinParts(parts_cube_name, 3) ELSE irregular_datacube
        acts_datacube == IF is_irregular THEN get_activities_by_datacube(dc) ELSE <<>>
        not_done_datacube == IF is_irregular THEN CountStatus(acts_datacube, "NOTDONE") ELSE 0
        error_datacube == IF is_irregular THEN CountStatus(acts_datacube, "ERROR") ELSE 0
        acts_irregular == get_activities_by_datacube(irregular_datacube)
        not_done_irregular == CountStatus(acts_irregular, "NOTDONE")
        error_irregular == CountStatus(acts_irregular, "ERROR")
        activities == acts_irregular \o acts_datacube
        errors == error_irregular + error_datacube
        not_done == not_done_irregular + not_done_datacube
    IN  IF Unfinished(not_done, errors)
        THEN [kind |-> "response", code |-> 200, finished |-> FALSE,
              done |-> DoneOfUnfinished(activities, not_done, errors),
              not_done |-> not_done, error |-> errors]
        ELSE IF Len(activities) = 0
        \* acts[-1] of an empty list, line 160
        THEN [kind |-> "raise", exception |-> "IndexError"]
        ELSE [kind |-> "response", code |-> 200, finished |-> TRUE,
              done |-> Len(activities)]

GetCubeStatus ==
    \E datacube \in DatacubeNames :
        /\ last' = [op |-> "get_cube_status", datacube |-> datacube,
                    result |-> get_cube_status(datacube)]
        /\ UNCHANGED ledger
        /\ UNCHANGED <<pipeVars, streamVars, storeVars, schemaVars, startVars>>

(***************************************************************************)
(* Ledger life cycle: the writes the workers make to the ledger.           *)
(***************************************************************************)
SetStatus(key, i, status) ==
    ledger' = [ledger EXCEPT ![key] = [@ EXCEPT ![i] = status]]

\* a build request registers an activity, status NOTDONE
RegisterActivity ==
    \E key \in LedgerKeys :
        /\ LedgerSize < MaxActs
        /\ ledger' = [ledger EXCEPT ![key] = Append(@, "NOTDONE")]
        /\ last' = NoCall
        /\ UNCHANGED <<pipeVars, streamVars, storeVars, schemaVars, startVars>>

\* a worker picks the activity up
StartActivity ==
    \E key \in LedgerKeys : \E i \in DOMAIN ledger[key] :
        /\ ledger[key][i] = "NOTDONE"
        /\ SetStatus(key, i, "DOING")
        /\ last' = NoCall
        /\ UNCHANGED <<pipeVars, streamVars, storeVars, schemaVars, startVars>>

\* the worker succeeds
FinishActivity ==
    \E key \in LedgerKeys : \E i \in DOMAIN ledger[key] :
        /\ ledger[key][i] = "DOING"
        /\ SetStatus(key, i, "DONE")
        /\ last' = NoCall
        /\ UNCHANGED <<pipeVars, streamVars, storeVars, schemaVars, startVars>>

\* the worker fails
FailActivity ==
    \E key \in LedgerKeys : \E i \in DOMAIN ledger[key] :
        /\ ledger[key][i] = "DOING"
        /\ SetStatus(key, i, "ERROR")
        /\ last' = NoCall
        /\ UNCHANGED <<pipeVars, streamVars, storeVars, schemaVars, startVars>>

\* a forced rebuild resets a terminal activity
ForceActivity ==
    \E key \in LedgerKeys : \E i \in DOMAIN ledger[key] :
        /\ ledger[key][i] \in {"DONE", "ERROR"}
        /\ SetStatus(key, i, "NOTDONE")
        /\ last' = NoCall
        /\ UNCHANGED <<pipeVars, streamVars, storeVars, schemaVars, startVars>>

\* the activities of one (tile, period) of a build, by stage
MergeActs == {"merge1", "merge2"}
BlendActs == {"blend1", "blend2"}
PublishActs == {"publish1"}
PipelineActs == MergeActs \cup BlendActs \cup PublishActs

\* a build request has registered the activities and enqueued the MERGE ones
InitPipeline ==
    /\ stage_status = [a \in PipelineActs |-> "NOTDONE"]
    /\ queue = [a \in PipelineActs |-> IF a \in MergeActs THEN 1 ELSE 0]
    /\ sent = [a \in PipelineActs |-> IF a \in MergeActs THEN 1 ELSE 0]
    /\ advanced = [stage \in {"merge", "blend"} |-> FALSE]
    /\ runs = <<>>
    /\ dups = 0

\* the state of a new CubeBusiness object over an empty ledger
InitBusiness ==
    /\ InitPipeline
    /\ ledger = [key \in LedgerKeys |-> <<>>]
    /\ worker_calls = <<>>
    /\ score = [items |-> NoItems]
    /\ temporal_composition_schemas = <<>>
    /\ raster_size_schemas = <<>>
    /\ last = NoCall

Init ==
    /\ InitBusiness
    /\ collections = {}
    /\ bands = <<>>
    /\ requests = <<>>

Next ==
    \/ GetCubeStatus
    \/ RegisterActivity
    \/ StartActivity
    \/ FinishActivity
    \/ FailActivity
    \/ ForceActivity

Spec == Init /\ [][Next]_vars

(***************************************************************************)
(* Properties of get_cube_status.                                          *)
(***************************************************************************)
\* the ledger activities of a cube: those of its irregular cube plus, for a
\* composite cube, those of the composite
CubeActivities(datacube) ==
    ledger[SubSeq(datacube, 1, 2)]
        \o (IF Len(datacube) > 2 THEN ledger[SubSeq(datacube, 1, 3)] ELSE <<>>)

StatusReturned == last.op = "get_cube_status" /\ last.result.kind = "response"

AllTerminal(acts) == \A i \in DOMAIN acts : acts[i] \in {"DONE", "ERROR"}

\* C1: get_cube_status reports finished:true only when the activities of the
\* cube (irregular plus composite) hold no NOTDONE and no ERROR; whenever that
\* number is not 0 it reports finished:false.
C1_FinishedOnlyWhenNoneLeft ==
    last.op = "get_cube_status" =>
        LET acts == CubeActivities(last.datacube)
            left == CountStatus(acts, "NOTDONE") + CountStatus(acts, "ERROR")
        IN  /\ left # 0 => (StatusReturned /\ last.result.finished = FALSE)
            /\ (StatusReturned /\ last.result.finished) => left = 0

C1_Witness ==
    /\ StatusReturned
    /\ last.result.finished
    /\ Len(last.datacube) = 4
    /\ Len(ledger[SubSeq(last.datacube, 1, 2)]) > 0
    /\ Len(ledger[SubSeq(last.datacube, 1, 3)]) > 0

\* every activity of the cube is terminal and at least one is ERROR
TerminalWithError(datacube) ==
    LET acts == CubeActivities(datacube)
    IN  AllTerminal(acts) /\ CountStatus(acts, "ERROR") > 0

\* C2 as stated: once every activity is terminal and one of them is ERROR,
\* get_cube_status reports finished:true.
C2_FinishedTrueWithErrors ==
    (last.op = "get_cube_status" /\ TerminalWithError(last.datacube)) =>
        (StatusReturned /\ last.result.finished = TRUE)

\* C2 amended: when every activity is terminal and at least one is ERROR,
\* get_cube_status reports finished:false, with not_done = 0 and error equal to
\* the number of ERROR activities (> 0).
C2_TerminalWithErrorStaysUnfinished ==
    (last.op = "get_cube_status" /\ TerminalWithError(last.datacube)) =>
        /\ StatusReturned
        /\ last.result.finished = FALSE
        /\ last.result.not_done = 0
        /\ last.result.error = CountStatus(CubeActivities(last.datacube), "ERROR")
        /\ last.result.error > 0

C2_Witness ==
    /\ last.op = "get_cube_status"
    /\ TerminalWithError(last.datacube)
    /\ Len(last.datacube) = 4
    /\ CountStatus(ledger[SubSeq(last.datacube, 1, 3)], "ERROR") > 0
    /\ CountStatus(CubeActivities(last.datacube), "DONE") > 0

\* C10 as stated: in the unfinished response done, not_done and error are the
\* numbers of activities of the cube with status DONE, NOTDONE and ERROR.
C10_CountsAreExact ==
    (StatusReturned /\ last.result.finished = FALSE) =>
        LET acts == CubeActivities(last.datacube)
        IN  /\ last.result.done = CountStatus(acts, "DONE")
            /\ last.result.not_done = CountStatus(acts, "NOTDONE")
            /\ last.result.error = CountStatus(acts, "ERROR")

(***************************************************************************)
(* CubeBusiness.continue_process_stream                                    *)
(***************************************************************************)
\* the records a callback may carry: 'action' and 'channel' are optional keys
StreamActions == {"merge", "blend", "publish", "solo"}
StreamChannels == {"kinesis", "sqs"}
StreamRecords ==
    [action : StreamActions \cup {Absent}, channel : StreamChannels \cup {Absent}]

RECURSIVE SeqsUpTo(_, _)
SeqsUpTo(S, n) ==
    IF n = 0 THEN {<<>>}
    ELSE LET shorter == SeqsUpTo(S, n - 1)
         IN  shorter \cup {Append(q, x) : q \in shorter, x \in S}

ParamsLists == SeqsUpTo(StreamRecords, MaxRecords) \ {<<>>}

DispatchIgnoringChannel(params) ==
    IF params.action = Absent THEN "KeyError"
    ELSE IF params.action = "merge" THEN "merge_warped"
    ELSE IF params.action = "blend" THEN "blend"
    ELSE IF params.action = "publish" THEN "publish"
    ELSE IF params.action = "solo" THEN "solo"
    ELSE "none"

\* the if/elif chain of lines 258-271: the worker the record is handed to,
\* "none" when no branch is taken, "KeyError" when params['action'] is read
\* from a record without that key
Dispatch(params) ==
    IF params.channel # Absent /\ params.channel = "kinesis" THEN "solo"
    ELSE IF params.action = Absent THEN "KeyError"
    ELSE IF params.action = "merge" THEN "merge_warped"
    ELSE IF params.action = "blend" THEN "blend"
    ELSE IF params.action = "publish" THEN "publish"
    ELSE "none"

\* the argument the worker is called with: solo gets the whole batch
WorkerArgument(worker, params_list) ==
    IF worker = "solo" THEN params_list ELSE params_list[1]

continue_process_stream(params_list) ==
    LET params == params_list[1]
        worker == Dispatch(params)
    IN  IF worker = "KeyError"
        THEN [calls |-> <<>>, result |-> [kind |-> "raise", exception |-> "KeyError"]]
        ELSE [calls |-> IF worker = "none" THEN <<>>
                        ELSE <<[worker |-> worker,
                                argument |-> WorkerArgument(worker, params_list)]>>,
              result |-> [kind |-> "response", statusCode |-> 200,
                          message |-> "Succesfully"]]

ContinueProcessStream ==
    \E params_list \in ParamsLists :
        LET out == continue_process_stream(params_list)
        IN  /\ worker_calls' = out.calls
            /\ last' = [op |-> "continue_process_stream", params_list |-> params_list,
                        result |-> out.result]
            /\ UNCHANGED <<pipeVars, statusVars, storeVars, schemaVars, startVars>>

NextStream == ContinueProcessStream

SpecStream == Init /\ [][NextStream]_vars

(***************************************************************************)
(* Properties of continue_process_stream.                                  *)
(***************************************************************************)
StreamCalled == last.op = "continue_process_stream"

\* the worker an action names
WorkerNamedBy(action) ==
    CASE action = "merge" -> "merge_warped"
      [] action = "blend" -> "blend"
      [] action = "publish" -> "publish"
      [] action = "solo" -> "solo"

\* exactly this worker was invoked, exactly once, and no other
InvokedExactly(worker) ==
    Len(worker_calls) = 1 /\ worker_calls[1].worker = worker

\* C3 as stated: a callback whose first record carries action merge, blend,
\* publish or solo invokes exactly the worker named by that action, once,
\* whatever the other fields of the record are.
C3_DispatchByAction ==
    (StreamCalled /\ last.params_list[1].action \in StreamActions) =>
        InvokedExactly(WorkerNamedBy(last.params_list[1].action))

\* C3 amended: a first record with channel 'kinesis' reaches solo, only solo
\* and once, with the whole batch, whatever its action; without that channel
\* a record with action merge, blend or publish reaches exactly the worker
\* named by its action, once, with the first record, and a record with action
\* solo reaches no worker; in all these cases the callback answers 200.
C3_DispatchByChannelThenAction ==
    (StreamCalled /\ ( \/ last.params_list[1].action \in StreamActions
                       \/ last.params_list[1].channel = "kinesis" )) =>
        LET params == last.params_list[1]
        IN  /\ last.result.kind = "response" /\ last.result.statusCode = 200
            /\ IF params.channel = "kinesis"
               THEN InvokedExactly("solo") /\ worker_calls[1].argument = last.params_list
               ELSE IF params.action = "solo"
               THEN worker_calls = <<>>
               ELSE /\ InvokedExactly(WorkerNamedBy(params.action))
                    /\ worker_calls[1].argument = params

C3_Witness ==
    /\ StreamCalled
    /\ last.params_list[1].action = "merge"
    /\ last.params_list[1].channel = "kinesis"
    /\ Len(last.params_list) = 2
    /\ InvokedExactly("solo")

(***************************************************************************)
(* Metadata store rows and cube names.                                     *)
(***************************************************************************)
\* str.upper() on the names of the model
Upper(name) ==
    CASE name = "ndvi" -> "NDVI"
      [] name = "evi" -> "EVI"
      [] name = "ClearOb" -> "CLEAROB"
      [] name = "clearob" -> "CLEAROB"
      [] name = "provenance" -> "PROVENANCE"
      [] name = "identity" -> "IDENTITY"
      [] name = "stk" -> "STK"
      [] name = "med" -> "MED"
      [] OTHER -> name

\* utils.builder.get_cube_id: the irregular cube id (name_resolution) when no
\* function or IDENTITY is given, else the cube name followed by the function
get_cube_id(cube, func) ==
    IF func = Absent \/ Upper(func) = "IDENTITY" THEN JoinParts(cube, 2)
    ELSE Append(cube, func)

CollectionRow(id, temporal_schema, function) ==
    [id |-> id, temporal_composition_schema_id |-> temporal_schema,
     composite_function_schema_id |-> function, is_cube |-> TRUE]

\* the None a query returns when no row matches
NoCollection == CollectionRow(<<>>, Absent, Absent)

BandRow(name, collection_id) == [name |-> name, collection_id |-> collection_id]

\* Collection.query().filter(Collection.id == cube_id).first()
CollectionById(cube_id) ==
    IF \E c \in collections : c.id = cube_id
    THEN CHOOSE c \in collections : c.id = cube_id
    ELSE NoCollection

\* Band.query().filter(Band.collection_id == collection_id).all()
BandsOfCollection(collection_id) ==
    LET Keep(row) == row.collection_id = collection_id IN SelectSeq(bands, Keep)

(***************************************************************************)
(* CubeBusiness.start_process                                              *)
(***************************************************************************)
Dates == 1..MaxDate

\* datetime.now() when the request carries no end_date
Today == MaxDate

\* indices_list, line 233
IndicesList == {"NDVI", "EVI", "CLEAROB", "TOTALOB"}

\* the test of line 241: the band is acquired, not derived
Acquired(name) == Upper(name) \notin IndicesList

\* bands_list of lines 239-242
BandsList(rows) ==
    LET Keep(row) == Acquired(row.name)
        kept == SelectSeq(rows, Keep)
    IN  [i \in DOMAIN kept |-> kept[i].name]

\* maestro.orchestrate: the period plan of the range, one period per day of
\* start_date..end_date; an inverted range is rejected
orchestrate(datacube, cube_infos, start_date, end_date) ==
    IF start_date > end_date
    THEN [kind |-> "raise", exception |-> "InvalidDateRange"]
    ELSE [kind |-> "return",
          items |-> [datacube |-> datacube, cube |-> cube_infos.id,
                     periods |-> start_date..end_date]]

StartRequests ==
    [datacube : {<<"mc", "10", "1M">>, <<"lc", "30", "16D">>}, start_date : Dates, end_date : Dates \cup {NoDate}]

NoParams == [datacube |-> <<>>, start_date |-> NoDate, end_date |-> NoDate]

NoRequest ==
    [pc |-> "idle", params |-> NoParams, cube_infos |-> NoCollection,
     start_date |-> NoDate, end_date |-> NoDate, bands |-> <<>>, bands_list |-> <<>>,
     calls |-> <<>>, result |-> NoResult, score_before |-> [items |-> NoItems]]

CubeMissingNever(cube_infos) == FALSE

\* the test of line 228
CubeMissing(cube_infos) == cube_infos = NoCollection

\* lines 216-242: the locals, the cube lookup and the band list
StartProcessBegin(r) ==
    /\ requests[r].pc = "idle"
    /\ \E params \in StartRequests :
        LET cube_id == get_cube_id(params.datacube, "STK")
            start_date == params.start_date
            end_date == IF params.end_date # NoDate THEN params.end_date ELSE Today
            cube_infos == CollectionById(cube_id)
            rows == BandsOfCollection(get_cube_id(params.datacube, Absent))
            begun == [NoRequest EXCEPT !.params = params, !.cube_infos = cube_infos,
                                       !.start_date = start_date, !.end_date = end_date,
                                       !.score_before = score]
        IN  requests' = [requests EXCEPT ![r] =
                IF CubeMissing(cube_infos)
                THEN [begun EXCEPT !.pc = "returned",
                        !.result = [kind |-> "response", body |-> "Cube not found!",
                                    code |-> 404]]
                ELSE [begun EXCEPT !.pc = "orchestrate", !.bands = rows,
                                   !.bands_list = BandsList(rows)]]
    /\ last' = [op |-> "start_process"]
    /\ UNCHANGED <<pipeVars, statusVars, streamVars, storeVars, schemaVars, score>>

\* line 246: self.score['items'] = orchestrate(...)
StartProcessOrchestrate(r) ==
    /\ requests[r].pc = "orchestrate"
    /\ LET q == requests[r]
           out == orchestrate(q.params.datacube, q.cube_infos, q.start_date, q.end_date)
           called == Append(q.calls, [function |-> "orchestrate",
                                      start_date |-> q.start_date,
                                      end_date |-> q.end_date])
       IN  IF out.kind = "raise"
           THEN /\ requests' = [requests EXCEPT ![r] =
                        [q EXCEPT !.pc = "returned", !.calls = called, !.result = out]]
                /\ UNCHANGED score
           ELSE /\ requests' = [requests EXCEPT ![r] =
                        [q EXCEPT !.pc = "prepare_merge", !.calls = called]]
                /\ score' = [score EXCEPT !.items = out.items]
    /\ last' = [op |-> "start_process"]
    /\ UNCHANGED <<pipeVars, statusVars, streamVars, storeVars, schemaVars>>

\* lines 249-254: prepare_merge(self, ...), which reads self.score['items']
StartProcessPrepareMerge(r) ==
    /\ requests[r].pc = "prepare_merge"
    /\ LET q == requests[r]
       IN  requests' = [requests EXCEPT ![r] =
               IF q.bands = <<>>
               \* bands[0] of an empty list, line 250
               THEN [q EXCEPT !.pc = "returned",
                       !.result = [kind |-> "raise", exception |-> "IndexError"]]
               ELSE [q EXCEPT !.pc = "returned",
                       !.calls = Append(@, [function |-> "prepare_merge",
                                            datacube |-> q.params.datacube,
                                            bands_list |-> q.bands_list,
                                            indices_list |-> IndicesList,
                                            items |-> score.items]),
                       !.result = [kind |-> "response", body |-> "Succesfully",
                                   code |-> 201]]]
    /\ last' = [op |-> "start_process"]
    /\ UNCHANGED <<pipeVars, statusVars, streamVars, storeVars, schemaVars, score>>

\* the caller takes the result; the object serves the next request
StartProcessReturn(r) ==
    /\ requests[r].pc = "returned"
    /\ requests' = [requests EXCEPT ![r] = NoRequest]
    /\ last' = [op |-> "start_process"]
    /\ UNCHANGED <<pipeVars, statusVars, streamVars, storeVars, schemaVars, score>>

\* the Band rows the store may hold for a build request
StartBandNames == {"B04", "ndvi", "TOTALOB", "PROVENANCE"}
StartBandRows ==
    {BandRow(name, <<"mc", "10">>) : name \in StartBandNames}
        \cup {BandRow("B08", <<"mc", "10", "1M", "STK">>)}

StartCollections ==
    { CollectionRow(<<"mc", "10", "1M", "STK">>, "M1month", "STK"),
      CollectionRow(<<"lc", "30", "16D", "STK">>, "A16day", "STK") }

InitStart ==
    /\ InitBusiness
    /\ collections \in SUBSET StartCollections
    /\ bands \in SeqsUpTo(StartBandRows, MaxBands)
    /\ requests = <<NoRequest>>

NextStart ==
    \E r \in DOMAIN requests :
        \/ StartProcessBegin(r)
        \/ StartProcessOrchestrate(r)
        \/ StartProcessPrepareMerge(r)
        \/ StartProcessReturn(r)

SpecStart == InitStart /\ [][NextStart]_vars

(***************************************************************************)
(* Properties of start_process.                                            *)
(***************************************************************************)
Returned(r) == requests[r].pc = "returned"

Invoked(r, function) ==
    \E i \in DOMAIN requests[r].calls : requests[r].calls[i].function = function

\* the store holds no collection with the id start_process looks up
NotInStore(r) ==
    \A c \in collections : c.id # Append(requests[r].params.datacube, "STK")

\* C4: start_process on a datacube whose collection is not in the metadata
\* store returns 'Cube not found!', 404, invokes neither orchestrate nor
\* prepare_merge and leaves self.score as it was.
C4_NotFoundHasNoEffect ==
    \A r \in DOMAIN requests :
        (requests[r].pc # "idle" /\ NotInStore(r)) =>
            /\ Returned(r)
            /\ requests[r].result.kind = "response"
            /\ requests[r].result.code = 404
            /\ requests[r].calls = <<>>
            /\ score = requests[r].score_before

C4_Witness ==
    \E r \in DOMAIN requests :
        /\ Returned(r)
        /\ NotInStore(r)
        /\ collections # {}
        /\ score.items # NoItems

InvertedRange(r) ==
    /\ requests[r].params.end_date # NoDate
    /\ requests[r].params.start_date > requests[r].params.end_date

\* C5 as stated: a request whose start_date is later than its end_date does
\* not return 201 and plans no work: neither orchestrate nor prepare_merge is
\* invoked for it.
C5_InvertedRangePlansNothing ==
    \A r \in DOMAIN requests :
        (requests[r].pc # "idle" /\ InvertedRange(r)) =>
            /\ ~Invoked(r, "orchestrate")
            /\ ~Invoked(r, "prepare_merge")
            /\ Returned(r) =>
                ~(requests[r].result.kind = "response" /\ requests[r].result.code = 201)

DerivedNames == {"NDVI", "EVI", "CLEAROB", "TOTALOB", "PROVENANCE"}

\* C7 as stated: the band list handed to prepare_merge holds no index band
\* (NDVI, EVI) and no observation band (CLEAROB, TOTALOB, PROVENANCE), in any
\* letter case, and holds every other band of the cube.
C7_NoDerivedBandAcquired ==
    \A r \in DOMAIN requests : \A i \in DOMAIN requests[r].calls :
        requests[r].calls[i].function = "prepare_merge" =>
            LET handed == Range(requests[r].calls[i].bands_list)
                ofCube == {bands[k].name : k \in
                             {j \in DOMAIN bands : bands[j].collection_id
                                 = SubSeq(requests[r].params.datacube, 1, 2)}}
            IN  /\ \A name \in handed : Upper(name) \notin DerivedNames
                /\ \A name \in ofCube : Upper(name) \notin DerivedNames => name \in handed

(***************************************************************************)
(* CubeBusiness.create_cube                                                *)
(*                                                                         *)
(* A Collection row keeps the id and the two schema bindings; a Band row   *)
(* keeps the name and the collection.                                      *)
(***************************************************************************)
\* str.strip() on the names of the model
Strip(name) ==
    CASE name = " TOTALOB " -> "TOTALOB"
      [] name = " B04" -> "B04"
      [] OTHER -> name

\* a local variable that has not been assigned yet
Unbound == "<unbound>"

TemporalSchemaAsRequested(params, c_function_id) == params.temporal_schema

\* line 61: the temporal composition schema the new collection is bound to
TemporalSchemaOf(params, c_function_id) ==
    IF Upper(c_function_id) # "IDENTITY" THEN params.temporal_schema ELSE "Anull"

HasId(rows, cube_id) == \E i \in DOMAIN rows : rows[i].id = cube_id

\* the loop of lines 52-75: the collections to add, in request order
RECURSIVE NewCubes(_, _, _, _)
NewCubes(functions, params, cubes_db, cubes) ==
    IF functions = <<>> THEN cubes
    ELSE LET c_function_id == Upper(Head(functions))
             cube_id == get_cube_id(params.datacube, c_function_id)
             add == ~HasId(cubes, cube_id) /\ ~(\E c \in cubes_db : c.id = cube_id)
             cube == CollectionRow(cube_id, TemporalSchemaOf(params, c_function_id),
                                   c_function_id)
         IN  NewCubes(Tail(functions), params, cubes_db,
                      IF add THEN Append(cubes, cube) ELSE cubes)

\* the test of line 104: the index is skipped for this cube
SkipIndice(cube, name) ==
    cube.composite_function_schema_id = "IDENTITY"
        /\ (name = "CLEAROB" \/ name = "TOTALOB")

\* lines 81-98 for one cube: one Band per name of params['bands'], named after
\* the local 'indice', which is unbound until an indices loop has run
BandsLoop(cube, params, indice) ==
    [i \in DOMAIN params.bands |-> BandRow(indice, cube.id)]

\* lines 101-121 for one cube
IndicesLoop(cube, params) ==
    LET stripped == [i \in DOMAIN params.indices |-> Strip(params.indices[i])]
        Keep(name) == ~SkipIndice(cube, name)
        kept == SelectSeq(stripped, Keep)
    IN  [i \in DOMAIN kept |-> BandRow(kept[i], cube.id)]

\* the loop of lines 79-121 over the new cubes: the Band rows to save, or the
\* UnboundLocalError of line 85
RECURSIVE NewBands(_, _, _, _)
NewBands(cubes, params, indice, rows) ==
    IF cubes = <<>> THEN [raised |-> FALSE, rows |-> rows]
    ELSE IF params.bands # <<>> /\ indice = Unbound
    THEN [raised |-> TRUE, rows |-> rows]
    ELSE LET cube == Head(cubes)
             after == IF params.indices = <<>> THEN indice
                      ELSE Strip(params.indices[Len(params.indices)])
         IN  NewBands(Tail(cubes), params, after,
                      rows \o BandsLoop(cube, params, indice) \o IndicesLoop(cube, params))

create_cube(params) ==
    LET cubes_db == collections
        cubes == NewCubes(params.composite_function, params, cubes_db, <<>>)
        saved == NewBands(cubes, params, Unbound, <<>>)
    IN  [collections |-> collections \cup Range(cubes),
         bands |-> IF saved.raised THEN bands ELSE bands \o saved.rows,
         result |-> IF saved.raised
                    THEN [kind |-> "raise", exception |-> "UnboundLocalError"]
                    ELSE [kind |-> "response", cubes |-> cubes, code |-> 201]]

CreateFunctionNames == {"IDENTITY", "identity", "STK", "MED"}
CreateIndexNames == {"NDVI", "CLEAROB", " TOTALOB "}
CreateBandLists == {<<>>, <<" B04">>}
CreateTemporalSchemas == {"M1month", "Anull"}

CreateRequests ==
    [datacube : {<<"mc", "10", "1M">>},
     composite_function : SeqsUpTo(CreateFunctionNames, MaxFunctions),
     temporal_schema : CreateTemporalSchemas,
     bands : CreateBandLists,
     indices : SeqsUpTo(CreateIndexNames, MaxIndices)]

CreateCube ==
    /\ last = NoCall
    /\ \E params \in CreateRequests :
        LET out == create_cube(params)
        IN  /\ collections' = out.collections
            /\ bands' = out.bands
            /\ last' = [op |-> "create_cube", params |-> params,
                        cubes_db |-> collections, result |-> out.result]
    /\ UNCHANGED <<pipeVars, statusVars, streamVars, startVars, schemaVars>>

\* the collections earlier create_cube calls may have left in the store
CreateExisting ==
    { CollectionRow(<<"mc", "10">>, "Anull", "IDENTITY"),
      CollectionRow(<<"mc", "10", "1M", "STK">>, "M1month", "STK") }

InitCreate ==
    /\ InitBusiness
    /\ collections \in SUBSET CreateExisting
    /\ bands = <<>>
    /\ requests = <<>>

NextCreate == CreateCube

SpecCreate == InitCreate /\ [][NextCreate]_vars

(***************************************************************************)
(* Properties of create_cube.                                              *)
(***************************************************************************)
CreateCalled == last.op = "create_cube"

\* the collections the call has created
Created == collections \ last.cubes_db

\* C8 as stated: a collection create_cube creates is bound to the sentinel
\* temporal schema 'Anull' if and only if its composite function is IDENTITY,
\* and a non-IDENTITY collection is bound to the requested temporal schema.
C8_SentinelIffIdentity ==
    CreateCalled =>
        \A c \in Created :
            /\ (c.temporal_composition_schema_id = "Anull")
                    <=> (c.composite_function_schema_id = "IDENTITY")
            /\ c.composite_function_schema_id # "IDENTITY" =>
                    c.temporal_composition_schema_id = last.params.temporal_schema

\* C8 amended: every IDENTITY collection create_cube creates is bound to
\* 'Anull' and every non-IDENTITY collection to the requested temporal schema,
\* so a created collection is bound to 'Anull' if and only if its function is
\* IDENTITY or the request itself names 'Anull' as its temporal schema.
C8_IdentityBoundToSentinel ==
    CreateCalled =>
        \A c \in Created :
            /\ c.composite_function_schema_id = "IDENTITY" =>
                    c.temporal_composition_schema_id = "Anull"
            /\ c.composite_function_schema_id # "IDENTITY" =>
                    c.temporal_composition_schema_id = last.params.temporal_schema
            /\ (c.temporal_composition_schema_id = "Anull")
                    <=> ( \/ c.composite_function_schema_id = "IDENTITY"
                          \/ last.params.temporal_schema = "Anull" )

C8_Witness ==
    /\ CreateCalled
    /\ \E c \in Created : c.composite_function_schema_id = "IDENTITY"
    /\ \E c \in Created : c.composite_function_schema_id # "IDENTITY"
    /\ last.params.temporal_schema = "M1month"

\* C9 as stated: create_cube creates no CLEAROB or TOTALOB band for an
\* IDENTITY collection, and creates every other requested index band for
\* every collection it creates.
C9_IndexBandsCreated ==
    CreateCalled =>
        \A c \in Created :
            /\ c.composite_function_schema_id = "IDENTITY" =>
                 \A i \in DOMAIN bands :
                    bands[i].collection_id = c.id =>
                        bands[i].name \notin {"CLEAROB", "TOTALOB"}
            /\ \A k \in DOMAIN last.params.indices :
                 LET name == Strip(last.params.indices[k])
                 IN  ~(c.composite_function_schema_id = "IDENTITY"
                            /\ name \in {"CLEAROB", "TOTALOB"})
                        => \E i \in DOMAIN bands : bands[i] = BandRow(name, c.id)

(***************************************************************************)
(* Build pipeline: the stream callbacks of one (tile, period), the workers *)
(* they dispatch to and the barrier that advances the stages.              *)
(***************************************************************************)
StageOf(a) ==
    IF a \in MergeActs THEN "merge" ELSE IF a \in BlendActs THEN "blend" ELSE "publish"

StageActs(stage) ==
    IF stage = "merge" THEN MergeActs ELSE IF stage = "blend" THEN BlendActs ELSE PublishActs

\* the activities of the stage that follows
NextActs(stage) ==
    IF stage = "merge" THEN BlendActs ELSE IF stage = "blend" THEN PublishActs ELSE {}

\* every activity after the stage
Downstream(stage) ==
    IF stage = "merge" THEN BlendActs \cup PublishActs
    ELSE IF stage = "blend" THEN PublishActs ELSE {}

\* the queue message of an activity
MessageOf(a) == [action |-> StageOf(a), channel |-> Absent]

RemoveAt(q, i) == SubSeq(q, 1, i - 1) \o SubSeq(q, i + 1, Len(q))

\* a conditional ledger write: the status changes only from the expected one
ConditionalWrite(status, a, expected, new) ==
    IF status[a] = expected THEN [status EXCEPT ![a] = new] ELSE status

\* the queue delivers a message it has carried a second time
DuplicateDelivery ==
    \E a \in PipelineActs :
        /\ sent[a] > 0
        /\ dups < MaxDuplicates
        /\ queue' = [queue EXCEPT ![a] = @ + 1]
        /\ dups' = dups + 1
        /\ last' = NoCall
        /\ UNCHANGED <<stage_status, sent, advanced, runs>>
        /\ UNCHANGED <<statusVars, streamVars, storeVars, schemaVars, startVars>>

\* continue_process_stream on a queue message: the worker the record names
\* picks the activity up
DeliverMessage ==
    \E a \in PipelineActs :
        /\ queue[a] > 0
        /\ Dispatch(MessageOf(a)) \in {"merge_warped", "blend", "publish"}
        /\ queue' = [queue EXCEPT ![a] = @ - 1]
        /\ stage_status' = ConditionalWrite(stage_status, a, "NOTDONE", "DOING")
        /\ runs' = Append(runs, [act |-> a, worker |-> Dispatch(MessageOf(a)),
                                 pc |-> "work", seen |-> "none"])
        /\ last' = [op |-> "continue_process_stream", params_list |-> <<MessageOf(a)>>,
                    result |-> NoResult]
        /\ UNCHANGED <<sent, advanced, dups>>
        /\ UNCHANGED <<statusVars, streamVars, storeVars, schemaVars, startVars>>

\* the worker ends: DONE or ERROR is written and the completion event raised
WorkerEnds ==
    \E i \in DOMAIN runs : \E outcome \in {"DONE", "ERROR"} :
        /\ runs[i].pc = "work"
        /\ stage_status' = ConditionalWrite(stage_status, runs[i].act, "DOING", outcome)
        /\ runs' = IF StageOf(runs[i].act) = "publish" THEN RemoveAt(runs, i)
                   ELSE [runs EXCEPT ![i].pc = "barrier"]
        /\ last' = NoCall
        /\ UNCHANGED <<queue, sent, advanced, dups>>
        /\ UNCHANGED <<statusVars, streamVars, storeVars, schemaVars, startVars>>

\* the barrier counts the activities of the stage
BarrierCount ==
    \E i \in DOMAIN runs :
        /\ runs[i].pc = "barrier"
        /\ LET siblings == StageActs(StageOf(runs[i].act))
               done == Cardinality({a \in siblings : stage_status[a] = "DONE"})
               error == Cardinality({a \in siblings : stage_status[a] = "ERROR"})
           IN  runs' = IF done + error # Cardinality(siblings) THEN RemoveAt(runs, i)
                       ELSE [runs EXCEPT ![i].pc = "advance",
                                         ![i].seen = IF done > 0 THEN "enqueue"
                                                     ELSE "no merges"]
        /\ last' = NoCall
        /\ UNCHANGED <<stage_status, queue, sent, advanced, dups>>
        /\ UNCHANGED <<statusVars, streamVars, storeVars, schemaVars, startVars>>

WonWhateverTheFlag(flag) == TRUE

\* the compare-and-set on the 'advanced' flag is won when the flag was unset
Won(flag) == ~flag

\* the barrier advances the stage: compare-and-set on the flag, then the next
\* stage is enqueued, or marked ERROR when nothing of this stage succeeded
BarrierAdvance ==
    \E i \in DOMAIN runs :
        /\ runs[i].pc = "advance"
        /\ LET stage == StageOf(runs[i].act)
           IN  IF Won(advanced[stage])
               THEN /\ advanced' = [advanced EXCEPT ![stage] = TRUE]
                    /\ IF runs[i].seen = "enqueue"
                       THEN /\ sent' = [a \in PipelineActs |->
                                    IF a \in NextActs(stage) THEN sent[a] + 1 ELSE sent[a]]
                            /\ queue' = [a \in PipelineActs |->
                                    IF a \in NextActs(stage) THEN queue[a] + 1 ELSE queue[a]]
                            /\ UNCHANGED stage_status
                       ELSE /\ stage_status' = [a \in PipelineActs |->
                                    IF a \in Downstream(stage) THEN "ERROR" ELSE stage_status[a]]
                            /\ UNCHANGED <<sent, queue>>
               ELSE UNCHANGED <<advanced, sent, queue, stage_status>>
        /\ runs' = RemoveAt(runs, i)
        /\ last' = NoCall
        /\ UNCHANGED dups
        /\ UNCHANGED <<statusVars, streamVars, storeVars, schemaVars, startVars>>

NextPipeline ==
    \/ DuplicateDelivery
    \/ DeliverMessage
    \/ WorkerEnds
    \/ BarrierCount
    \/ BarrierAdvance

SpecPipeline == Init /\ [][NextPipeline]_vars

(***************************************************************************)
(* Properties of the barrier.                                              *)
(***************************************************************************)
\* C6: under every interleaving of the callbacks, duplicate deliveries and
\* concurrent completions of the last two siblings included, each activity of
\* the next stage (BLEND after MERGE, PUBLISH after BLEND) is enqueued at most
\* once.
C6_NextStageEnqueuedAtMostOnce ==
    \A a \in BlendActs \cup PublishActs : sent[a] <= 1

\* the stage was advanced and a second completion of it is still to advance
C6_Witness ==
    /\ advanced["merge"]
    /\ \A a \in BlendActs : sent[a] = 1
    /\ \E i \in DOMAIN runs : runs[i].pc = "advance" /\ StageOf(runs[i].act) = "merge"
    /\ dups > 0

(***************************************************************************)
(* CubeBusiness.create_temporal_composition                                *)
(*                                                                         *)
(* A string argument is modelled by the sequence of its characters, so     *)
(* that the id built by concatenation can be the same for different        *)
(* arguments: ('A', '', '') and ('A', 'null', '') both give 'Anull'.       *)
(***************************************************************************)
\* the store holds at most this many TemporalCompositionSchema rows
MaxSchemas == 3

NullText == <<"n", "u", "l", "l">>

TemporalSchemaNames == {<<"A">>, <<"M">>}
TemporalCompositeTs == {<<>>, <<"1">>, NullText}
TemporalCompositeUnits == {<<>>, <<"d", "a", "y">>}

\* lines 545-547: schema + (step or 'null') + unit
TemporalCompositionId(temporal_schema, temporal_composite_t, temporal_composite_unit) ==
    temporal_schema
        \o (IF temporal_composite_t # <<>> THEN temporal_composite_t ELSE NullText)
        \o (IF temporal_composite_unit # <<>> THEN temporal_composite_unit ELSE <<>>)

TemporalCompositionRow(id, temporal_schema, temporal_composite_t, temporal_composite_unit) ==
    [id |-> id, temporal_schema |-> temporal_schema,
     temporal_composite_t |-> temporal_composite_t,
     temporal_composite_unit |-> temporal_composite_unit]

HasSchemaNever(rows, id) == FALSE

\* lines 549-550: the query by id finds a row
HasSchema(rows, id) == \E i \in DOMAIN rows : rows[i].id = id

create_temporal_composition(temporal_schema, temporal_composite_t, temporal_composite_unit) ==
    LET id == TemporalCompositionId(temporal_schema, temporal_composite_t,
                                    temporal_composite_unit)
    IN  IF HasSchema(temporal_composition_schemas, id)
        THEN [schemas |-> temporal_composition_schemas,
              result |-> [kind |-> "response", code |-> 409]]
        ELSE [schemas |-> Append(temporal_composition_schemas,
                                 TemporalCompositionRow(id, temporal_schema,
                                                        temporal_composite_t,
                                                        temporal_composite_unit)),
              result |-> [kind |-> "response", code |-> 201]]

CreateTemporalComposition ==
    \E temporal_schema \in TemporalSchemaNames :
    \E temporal_composite_t \in TemporalCompositeTs :
    \E temporal_composite_unit \in TemporalCompositeUnits :
        LET out == create_temporal_composition(temporal_schema, temporal_composite_t,
                                               temporal_composite_unit)
        IN  /\ Len(out.schemas) <= MaxSchemas
            /\ temporal_composition_schemas' = out.schemas
            /\ last' = [op |-> "create_temporal_composition",
                        temporal_schema |-> temporal_schema,
                        temporal_composite_t |-> temporal_composite_t,
                        temporal_composite_unit |-> temporal_composite_unit,
                        schemas_db |-> temporal_composition_schemas,
                        result |-> out.result]
            /\ UNCHANGED raster_size_schemas
            /\ UNCHANGED <<pipeVars, statusVars, streamVars, storeVars, startVars>>

NextTemporal == CreateTemporalComposition

SpecTemporal == Init /\ [][NextTemporal]_vars

(***************************************************************************)
(* Properties of create_temporal_composition.                              *)
(***************************************************************************)
TemporalCalled == last.op = "create_temporal_composition"

\* the id of the call in 'last', put together from its three arguments
CalledId ==
    last.temporal_schema
        \o (IF last.temporal_composite_t = <<>> THEN NullText
            ELSE last.temporal_composite_t)
        \o last.temporal_composite_unit

\* C11: the store holds at most one temporal composition schema per id; a
\* call whose id is already in the store returns 409 and leaves the store as
\* it was, a call whose id is not in the store adds exactly the one schema of
\* that id and returns 201.
C11_DuplicateIsConflict ==
    /\ \A i, j \in DOMAIN temporal_composition_schemas :
           temporal_composition_schemas[i].id = temporal_composition_schemas[j].id
               => i = j
    /\ TemporalCalled =>
           IF \E i \in DOMAIN last.schemas_db : last.schemas_db[i].id = CalledId
           THEN /\ last.result.code = 409
                /\ temporal_composition_schemas = last.schemas_db
           ELSE /\ last.result.code = 201
                /\ temporal_composition_schemas =
                       Append(last.schemas_db,
                              [id |-> CalledId,
                               temporal_schema |-> last.temporal_schema,
                               temporal_composite_t |-> last.temporal_composite_t,
                               temporal_composite_unit |-> last.temporal_composite_unit])

\* a call is refused because of a schema created with another step argument
C11_Witness ==
    /\ TemporalCalled
    /\ last.result.code = 409
    /\ \E i \in DOMAIN temporal_composition_schemas :
           /\ temporal_composition_schemas[i].id = CalledId
           /\ temporal_composition_schemas[i].temporal_composite_t
                  # last.temporal_composite_t
    /\ Len(temporal_composition_schemas) > 1

(***************************************************************************)
(* CubeBusiness.create_raster_size and CubeBusiness.estimate_cost          *)
(*                                                                         *)
(* Tile extents are whole numbers of metres. Of the response of            *)
(* estimate_cost the model keeps the five activity and item counts of the  *)
(* 'build' dictionary; the sizes and prices, which are floating-point      *)
(* products of the same factors, are left out.                             *)
(***************************************************************************)
\* a calendar month has this many days
DaysPerMonth == 2

\* the Tile rows of the store with the extent of their geometry: the grid
\* 'BRAZIL' has tiles, the grid 'AEA' has none
Tiles ==
    { [grs_schema_id |-> "BRAZIL", id |-> "003003",
       xmin |-> 0, xmax |-> 5, ymin |-> 0, ymax |-> 3] }

GridNames == {"BRAZIL", "AEA"}

\* a query result that is None
NoTile == [grs_schema_id |-> "<none>", id |-> "<none>",
           xmin |-> 0, xmax |-> 0, ymin |-> 0, ymax |-> 0]

\* db.session().query(Tile, ...).filter(Tile.grs_schema_id == grid).first()
FirstTile(grid) ==
    IF \E t \in Tiles : t.grs_schema_id = grid
    THEN CHOOSE t \in Tiles : t.grs_schema_id = grid
    ELSE NoTile

\* int(text) for the texts the requests carry
ParseInt(text) == CASE text = "1" -> 1 [] text = "2" -> 2

Resolutions == {"1", "2"}
ChunkSizes == {256, 512}

\* round(n / d, 0) of Python 3 for n >= 0, d > 0: a tie goes to the even value
Round(n, d) ==
    LET q == n \div d
        r == n % d
    IN  IF 2 * r < d THEN q
        ELSE IF 2 * r > d THEN q + 1
        ELSE IF q % 2 = 0 THEN q ELSE q + 1

\* int(round((tile[2]-tile[1])/int(resolution),0)), lines 415 and 730
raster_size_x(tile, resolution) == Round(tile.xmax - tile.xmin, ParseInt(resolution))

\* int(round((tile[4]-tile[3])/int(resolution),0)), lines 416 and 731
raster_size_y(tile, resolution) == Round(tile.ymax - tile.ymin, ParseInt(resolution))

\* '{}-{}'.format(grs_schema, resolution)
RasterSchemaId(grs_schema, resolution) == <<grs_schema, resolution>>

RasterSizeRow(id, size_x, size_y, chunk_size_x, chunk_size_y) ==
    [id |-> id, raster_size_x |-> size_x, raster_size_y |-> size_y,
     raster_size_t |-> 1, chunk_size_x |-> chunk_size_x,
     chunk_size_y |-> chunk_size_y, chunk_size_t |-> 1]

\* the statement of lines 412 and 729, "'GRS not found!', 404", is an
\* expression and not a return: the method goes on and subscripts None
TileIsNone(tile) == tile = NoTile

create_raster_size(grs_schema, resolution, chunk_size_x, chunk_size_y) ==
    LET tile == FirstTile(grs_schema)
        id == RasterSchemaId(grs_schema, resolution)
        row == RasterSizeRow(id, raster_size_x(tile, resolution),
                             raster_size_y(tile, resolution),
                             chunk_size_x, chunk_size_y)
        found == {i \in DOMAIN raster_size_schemas : raster_size_schemas[i].id = id}
    IN  IF TileIsNone(tile)
        \* tile[2] of None, line 415
        THEN [schemas |-> raster_size_schemas,
              result |-> [kind |-> "raise", exception |-> "TypeError"]]
        ELSE IF found # {}
        THEN LET first == CHOOSE i \in found : \A j \in found : i <= j
             IN  [schemas |-> [raster_size_schemas EXCEPT ![first] = row],
                  result |-> [kind |-> "response", code |-> 201]]
        ELSE [schemas |-> Append(raster_size_schemas, row),
              result |-> [kind |-> "response", code |-> 201]]

CreateRasterSize ==
    \E grs_schema \in GridNames, resolution \in Resolutions :
    \E chunk_size_x \in ChunkSizes, chunk_size_y \in {256} :
        LET out == create_raster_size(grs_schema, resolution, chunk_size_x, chunk_size_y)
        IN  /\ raster_size_schemas' = out.schemas
            /\ last' = [op |-> "create_raster_size", grid |-> grs_schema,
                        resolution |-> resolution,
                        schemas_db |-> raster_size_schemas,
                        result |-> out.result]
            /\ UNCHANGED temporal_composition_schemas
            /\ UNCHANGED <<pipeVars, statusVars, streamVars, storeVars, startVars>>

\* the dates an estimate may be asked for: the days of two months
EstimateDates == 1 .. (2 * DaysPerMonth)

MonthOf(date) == (date - 1) \div DaysPerMonth

\* utils.builder.decode_periods: a dictionary of period lists. Schema 'M'
\* has one key, holding one period, per calendar month that meets
\* [start_date, last_date]; a cyclic schema has one key, the year, holding
\* the windows of t_step days, anchored at the start of the year, that meet
\* [start_date, last_date].
decode_periods(t_schema, start_date, last_date, t_step) ==
    IF t_schema = "M"
    THEN [m \in MonthOf(start_date) .. MonthOf(last_date) |-> <<m>>]
    ELSE LET first == (start_date - 1) \div t_step
             final == (last_date - 1) \div t_step
         IN  [year \in {0} |-> [i \in 1 .. (final - first + 1) |-> first + i - 1]]

RECURSIVE SumLen(_, _)
\* sum([len(p) for p in periods.values()])
SumLen(periods, keys) ==
    IF keys = {} THEN 0
    ELSE LET k == CHOOSE x \in keys : TRUE
         IN  Len(periods[k]) + SumLen(periods, keys \ {k})

\* line 735
LenPeriods(t_schema, periods) ==
    IF t_schema = "M" THEN Cardinality(DOMAIN periods)
    ELSE SumLen(periods, DOMAIN periods)

\* int(n / d) for d > 0: the quotient cut towards zero
IntOfQuotient(n, d) == IF n >= 0 THEN n \div d ELSE -((-n) \div d)

\* the results utils.builder.revisit_by_satellite may give, in days
RevisitDays == {1, 2}

\* estimate_cost, with revisit_by_sat the result of revisit_by_satellite(satellite)
estimate_cost(revisit_by_sat, resolution, grid, start_date, last_date, quantity_bands, quantity_tiles, t_schema, t_step) ==
    LET tile == FirstTile(grid)
        periods == decode_periods(t_schema, start_date, last_date, ParseInt(t_step))
        len_periods == LenPeriods(t_schema, periods)
        days == last_date - start_date
        \* scenes = days / revisit_by_sat is kept as a fraction
        quantity_blends == quantity_bands * quantity_tiles * len_periods
        quantity_publish == len_periods
    IN  IF TileIsNone(tile)
        \* tile[2] of None, line 730
        THEN [kind |-> "raise", exception |-> "TypeError"]
        ELSE [kind |-> "response", code |-> 200,
              build |->
                [quantity_merges |->
                     IntOfQuotient(quantity_bands * quantity_tiles * days, revisit_by_sat),
                 quantity_blends |-> quantity_blends,
                 quantity_publish |-> quantity_publish,
                 collection_items_irregular |->
                     IntOfQuotient(quantity_tiles * days, revisit_by_sat),
                 collection_items |-> (quantity_tiles * len_periods) * 2]]

Quantities == {1, 2}

EstimateCost ==
    \E revisit_by_sat \in RevisitDays, resolution \in Resolutions, grid \in GridNames :
    \E start_date \in EstimateDates, last_date \in EstimateDates :
    \E quantity_bands \in Quantities, quantity_tiles \in Quantities :
    \E t_schema \in {"M", "A"}, t_step \in {"1", "2"} :
        /\ start_date <= last_date
        /\ last' = [op |-> "estimate_cost", grid |-> grid,
                    start_date |-> start_date, last_date |-> last_date,
                    quantity_bands |-> quantity_bands,
                    quantity_tiles |-> quantity_tiles,
                    t_schema |-> t_schema, t_step |-> t_step,
                    result |-> estimate_cost(revisit_by_sat, resolution, grid,
                                             start_date, last_date, quantity_bands,
                                             quantity_tiles, t_schema, t_step)]
        /\ UNCHANGED schemaVars
        /\ UNCHANGED <<pipeVars, statusVars, streamVars, storeVars, startVars>>

NextRaster ==
    \/ CreateRasterSize
    \/ EstimateCost

SpecRaster == Init /\ [][NextRaster]_vars

(***************************************************************************)
(* Properties of create_raster_size and estimate_cost.                     *)
(***************************************************************************)
RasterCalled == last.op = "create_raster_size"

EstimateCalled == last.op = "estimate_cost"

GridHasNoTile(grid) == \A t \in Tiles : t.grs_schema_id # grid

\* C12 as stated: when the named grid has no tile in the store,
\* create_raster_size and estimate_cost return ('GRS not found!', 404) and do
\* not raise, and create_raster_size leaves the raster size schemas as they
\* were.
C12_NoTileIsNotFound ==
    ((RasterCalled \/ EstimateCalled) /\ GridHasNoTile(last.grid)) =>
        /\ last.result.kind = "response"
        /\ last.result.code = 404
        /\ RasterCalled => raster_size_schemas = last.schemas_db

\* the number of periods of the estimate in 'last'
EstimatedPeriods ==
    IF last.t_schema = "M"
    THEN MonthOf(last.last_date) - MonthOf(last.start_date) + 1
    ELSE ((last.last_date - 1) \div ParseInt(last.t_step))
             - ((last.start_date - 1) \div ParseInt(last.t_step)) + 1

\* C13 as stated: in every estimate build.quantity_publish is quantity_tiles
\* times the number of periods, as build.quantity_blends is quantity_bands
\* times quantity_tiles times the number of periods.
C13_PublishPerTileAndPeriod ==
    (EstimateCalled /\ last.result.kind = "response") =>
        /\ last.result.build.quantity_blends
               = last.quantity_bands * last.quantity_tiles * EstimatedPeriods
        /\ last.result.build.quantity_publish
               = last.quantity_tiles * EstimatedPeriods

(***************************************************************************)
(* Two start_process calls on one CubeBusiness object: the steps of one    *)
(* call interleave with the steps of the other, and both use self.score.   *)
(***************************************************************************)
\* the store both requests run against: the two cubes, each with one band
ConcurrentBands ==
    <<BandRow("B04", <<"mc", "10">>), BandRow("B04", <<"lc", "30">>)>>

InitConcurrent ==
    /\ InitBusiness
    /\ collections = StartCollections
    /\ bands = ConcurrentBands
    /\ requests = <<NoRequest, NoRequest>>

SpecConcurrent == InitConcurrent /\ [][NextStart]_vars

\* the period plan orchestrate produces for request r
PlanOf(r) ==
    [datacube |-> requests[r].params.datacube,
     cube |-> requests[r].cube_infos.id,
     periods |-> requests[r].start_date .. requests[r].end_date]

\* C14 as stated: under every interleaving of two start_process calls on the
\* same CubeBusiness object, the period plan prepare_merge reads for a request
\* is the one orchestrate produced for that request.
C14_PlanOfSameRequest ==
    \A r \in DOMAIN requests : \A i \in DOMAIN requests[r].calls :
        requests[r].calls[i].function = "prepare_merge" =>
            requests[r].calls[i].items = PlanOf(r)

(***************************************************************************)
(* CubeBusiness.list_cubes                                                 *)
(*                                                                         *)
(* Of a serialized cube the listing keeps the id and the two fields the    *)
(* method adds, 'finished' and 'status'.                                   *)
(***************************************************************************)
\* the Collection rows of the store the listing runs over: the cubes of the
\* ledger keys, and a source collection, which is not a cube
ListCollections ==
    { CollectionRow(<<"mc", "10">>, "Anull", "IDENTITY"),
      CollectionRow(<<"mc", "10", "1M", "STK">>, "M1month", "STK"),
      CollectionRow(<<"mc", "10", "16D", "MED">>, "A16day", "MED"),
      [CollectionRow(<<"LC8SR">>, Absent, Absent) EXCEPT !.is_cube = FALSE] }

\* lines 449-465: the activities the listing counts for one cube, and of them
\* the NOTDONE and the ERROR ones
ListCounts(cube) ==
    LET composite == cube.composite_function_schema_id # "IDENTITY"
        parts == get_cube_parts(cube.id)
        acts_datacube ==
            IF composite THEN get_activities_by_datacube(JoinParts(parts, 3)) ELSE <<>>
        acts_identity == get_activities_by_datacube(JoinParts(parts, 2))
    IN  [sum_acts |-> Len(acts_datacube) + Len(acts_identity),
         sum_not_done |-> CountStatus(acts_datacube, "NOTDONE")
                              + CountStatus(acts_identity, "NOTDONE"),
         sum_errors |-> CountStatus(acts_datacube, "ERROR")
                            + CountStatus(acts_identity, "ERROR")]

\* lines 470-472
cube_formated(cube) ==
    LET n == ListCounts(cube)
        finished == (n.sum_not_done + n.sum_errors) = 0
    IN  [id |-> cube.id, finished |-> finished,
         status |-> IF n.sum_errors > 0 THEN "Error"
                    ELSE IF finished = TRUE THEN "Finished" ELSE "Pending"]

\* the cubes that have at least one activity, each with finished and status
list_cubes ==
    LET cubes == {c \in collections : c.is_cube}
    IN  [kind |-> "response", code |-> 200,
         cubes |-> {cube_formated(c) : c \in {x \in cubes : ListCounts(x).sum_acts > 0}}]

ListCubes ==
    /\ last' = [op |-> "list_cubes", result |-> list_cubes]
    /\ UNCHANGED ledger
    /\ UNCHANGED <<pipeVars, streamVars, storeVars, schemaVars, startVars>>

InitList ==
    /\ InitBusiness
    /\ collections = ListCollections
    /\ bands = <<>>
    /\ requests = <<>>

NextList ==
    \/ Next
    \/ ListCubes

SpecList == InitList /\ [][NextList]_vars

(***************************************************************************)
(* Properties of the two status reports.                                   *)
(***************************************************************************)
AllDone(acts) == \A i \in DOMAIN acts : acts[i] = "DONE"

\* C15 as stated: when get_cube_status reports finished:true, or list_cubes
\* lists a cube with finished = true and status 'Finished', every activity of
\* the cube is DONE, none is DOING, and the done count of get_cube_status is
\* the number of DONE activities.
C15_FinishedMeansAllDone ==
    /\ (StatusReturned /\ last.result.finished) =>
           /\ AllDone(CubeActivities(last.datacube))
           /\ last.result.done = CountStatus(CubeActivities(last.datacube), "DONE")
    /\ last.op = "list_cubes" =>
           \A c \in last.result.cubes :
               (c.finished /\ c.status = "Finished") => AllDone(CubeActivities(c.id))

\* C16 as stated: get_cube_status returns a status response with code 200 in
\* every ledger state, a cube without any activity included.
C16_StatusAlwaysAnswers ==
    last.op = "get_cube_status" =>
        (last.result.kind = "response" /\ last.result.code = 200)

\* C17 as stated: after a create_cube call the store holds, for every
\* collection the call saved, one Band row per name in params['bands'] that
\* carries the name of that band.
C17_SavedCollectionsHaveBands ==
    CreateCalled =>
        \A c \in collections \ last.cubes_db :
            \A k \in DOMAIN last.params.bands :
                Cardinality({i \in DOMAIN bands :
                                bands[i] = BandRow(Strip(last.params.bands[k]), c.id)}) = 1

====
